---- MODULE Spec2Model ----
(***************************************************************************)
(* Model of the resume-tailoring glue code: the stub persistence layer     *)
(* (db/queries.py), the tool registry, agent and task factories and the    *)
(* lazily built crew (utils/crew.py).                                      *)
(*                                                                         *)
(* Python values are modelled as follows.  An optional value (None or x)   *)
(* is the sequence <<>> or <<x>>.  A path is a string, "None" standing for *)
(* the Python None and "" for the empty string.  An object that the        *)
(* external framework builds (tool, agent, task, crew) is a record of the  *)
(* arguments its constructor was given.  Every external constructor and    *)
(* the external Crew.kickoff may raise: which of them raises is an input   *)
(* of the environment, chosen with \E.                                     *)
(***************************************************************************)
EXTENDS Integers, Sequences, FiniteSets, TLC

\* ---------------------------------------------------------------- bounds
MaxKickoffs == 3
MaxCrews == 2
MaxNow == 1

\* ---------------------------------------------------------------- inputs
None == <<>>
Some(x) == <<x>>

NonePath == "None"
DataPdf == "data/Nikhil_Nageshwar_Inturi.pdf"
OtherPath == "docs/index.mdx"
DiskPaths == {DataPdf, OtherPath}
PathArgs == {NonePath, ""} \cup DiskPaths

KeyValues == {"unset", "", "serper-key"}

UserIds == {1, 2, 3}
Contents == {"", "%PDF-a"}
Omitted == "<omitted>"
FilenameArgs == {Omitted, "cv.pdf"}
ResumeIdArgs == {None, Some(0), Some(1), Some(7)}
Limits == {0, 10}
InputMappings == {"inputs-a", "inputs-b"}

CapabilityOrder == <<"scrape", "search", "read_resume", "semantic_search">>
Capabilities == {CapabilityOrder[i] : i \in 1..Len(CapabilityOrder)}

VARIABLES
    SERPER_API_KEY, \* os.environ["SERPER_API_KEY"]: "unset", "" or a key
    disk,           \* the paths that exist on disk
    crew_memo,      \* LazyJobApplicationCrew._crew: None or Some(crew)
    kickoffs,       \* number of kickoff calls made on job_application_crew
    built,          \* number of Crew objects the lazy wrapper has built
    objects,        \* number of Crew objects built by the process so far
    dbCalls,        \* the methods called on the session handle so far
    saved,          \* the user ids save_resume has been called for
    last            \* the last call: its arguments and what it returned

vars == <<SERPER_API_KEY, disk, crew_memo, kickoffs, built, objects, dbCalls, saved, last>>

\* ------------------------------------------------- db/queries.py (stubs)

\* Python truthiness of an optional integer: None and 0 are falsy.
TruthyId(resume_id) == resume_id # None /\ resume_id[1] # 0

ResumeRecord(user_id, content, filename, now) ==
    [user_id |-> user_id,
     content |-> content,
     filename |-> IF filename = Omitted THEN "resume.pdf" ELSE filename,
     id |-> 1,
     created_at |-> now]

save_resume_default_lost(db, user_id, content, filename, now) ==
    [ret |-> ResumeRecord(user_id, content, Omitted, now),
     log |-> <<"Saving resume (stub)">>, session |-> <<>>]

\* save_resume: ret is the returned record, log the messages logged and
\* session the methods called on db, in order.
save_resume(db, user_id, content, filename, now) ==
    [ret |-> ResumeRecord(user_id, content,
                          IF filename = Omitted THEN "tailored_resume.pdf" ELSE filename,
                          now),
     log |-> <<"Saving resume (stub)">>, session |-> <<>>]

delete_resume_listing_saved(db, resume_id, list_only) ==
    IF list_only
    THEN [ret |-> [kind |-> "list", items |-> [i \in 1..Cardinality(saved) |-> "row"]],
          log |-> <<"Listing resumes (stub)">>, session |-> <<>>]
    ELSE [ret |-> [kind |-> "None", items |-> <<>>],
          log |-> IF TruthyId(resume_id) THEN <<"Deleting resume (stub)">> ELSE <<>>,
          session |-> <<>>]

delete_resume_returning_flag(db, resume_id, list_only) ==
    IF list_only
    THEN [ret |-> [kind |-> "list", items |-> <<>>],
          log |-> <<"Listing resumes (stub)">>, session |-> <<>>]
    ELSE IF TruthyId(resume_id)
    THEN [ret |-> [kind |-> "None", items |-> <<>>],
          log |-> <<"Deleting resume (stub)">>, session |-> <<>>]
    ELSE [ret |-> [kind |-> "bool", items |-> <<>>], log |-> <<>>, session |-> <<>>]

delete_resume(db, resume_id, list_only) ==
    IF list_only
    THEN [ret |-> [kind |-> "list", items |-> <<>>],
          log |-> <<"Listing resumes (stub)">>, session |-> <<>>]
    ELSE [ret |-> [kind |-> "None", items |-> <<>>],
          log |-> IF TruthyId(resume_id) THEN <<"Deleting resume (stub)">> ELSE <<>>,
          session |-> <<>>]

get_resume_history_querying(db, user_id, limit) ==
    [ret |-> IF user_id \in saved /\ limit > 0 THEN <<"row">> ELSE <<>>,
     log |-> <<"Getting resume history (stub)">>, session |-> <<"query">>]

get_resume_history(db, user_id, limit) ==
    [ret |-> <<>>, log |-> <<"Getting resume history (stub)">>, session |-> <<>>]

Methods(calls) == {calls[i] : i \in 1..Len(calls)}

SaveResume ==
    \E user_id \in UserIds, content \in Contents, filename \in FilenameArgs, now \in 0..MaxNow :
      \E r \in {save_resume(dbCalls, user_id, content, filename, now)} :
        /\ last' = [user_id |-> user_id,
                    content |-> content,
                    filename |-> filename,
                    ret |-> r.ret,
                    log |-> r.log,
                    op |-> "save_resume"]
        /\ dbCalls' = dbCalls \cup Methods(r.session)
        /\ saved' = saved \cup {user_id}
        /\ UNCHANGED <<SERPER_API_KEY, disk, crew_memo, kickoffs, built, objects>>

DeleteResume ==
    \E resume_id \in ResumeIdArgs, list_only \in BOOLEAN :
      \E r \in {delete_resume(dbCalls, resume_id, list_only)} :
        /\ last' = [resume_id |-> resume_id,
                    ret |-> r.ret,
                    log |-> r.log,
                    list_only |-> list_only,
                    op |-> "delete_resume"]
        /\ dbCalls' = dbCalls \cup Methods(r.session)
        /\ UNCHANGED <<SERPER_API_KEY, disk, crew_memo, kickoffs, built, objects, saved>>

GetResumeHistory ==
    \E user_id \in UserIds, limit \in Limits :
      \E r \in {get_resume_history(dbCalls, user_id, limit)} :
        /\ last' = [user_id |-> user_id,
                    ret |-> r.ret,
                    log |-> r.log,
                    limit |-> limit,
                    op |-> "get_resume_history"]
        /\ dbCalls' = dbCalls \cup Methods(r.session)
        /\ UNCHANGED <<SERPER_API_KEY, disk, crew_memo, kickoffs, built, objects, saved>>


\* ------------------------------------------------ utils/crew.py: factories

\* Handles of the external tool classes: the class and its argument.
ScrapeWebsiteTool == [cls |-> "ScrapeWebsiteTool", arg |-> ""]
SerperDevTool(api_key) == [cls |-> "SerperDevTool", arg |-> api_key]
FileReadTool(file_path) == [cls |-> "FileReadTool", arg |-> file_path]
MDXSearchTool(mdx) == [cls |-> "MDXSearchTool", arg |-> mdx]

\* A dict as a function on its keys: d.get(k) is None or Some(d[k]).
Get(d, k) == IF k \in DOMAIN d THEN Some(d[k]) ELSE None
Put(d, k, v) == [x \in DOMAIN d \cup {k} |-> IF x = k THEN v ELSE d[x]]

\* Python truthiness of what tools.get returns: None is falsy, a tool is truthy.
Truthy(opt) == opt # None
AppendIf(list, opt) == IF Truthy(opt) THEN Append(list, opt[1]) ELSE list

Agent(role, goal, tools) == [role |-> role, goal |-> goal, tools |-> tools, verbose |-> TRUE]

create_agents_researcher_gets_all(tools) ==
    LET all == AppendIf(AppendIf(AppendIf(AppendIf(<<>>, Get(tools, "scrape")),
                   Get(tools, "search")), Get(tools, "read_resume")),
                   Get(tools, "semantic_search"))
    IN  << Agent("Tech Job Researcher", "Analyze job postings", all),
           Agent("Personal Profiler for Engineers", "Compile profiles", all),
           Agent("Resume Strategist for Engineers", "Optimize resumes", all),
           Agent("Engineering Interview Preparer", "Generate interview questions", all) >>

create_agents(tools) ==
    LET search_tool == Get(tools, "search")
        scrape_tool == Get(tools, "scrape")
        read_resume_tool == Get(tools, "read_resume")
        semantic_search_tool == Get(tools, "semantic_search")
        researcher_tools == AppendIf(AppendIf(<<>>, scrape_tool), search_tool)
        profiler_tools ==
            AppendIf(AppendIf(AppendIf(AppendIf(<<>>, scrape_tool), search_tool),
                              read_resume_tool), semantic_search_tool)
        strategist_tools ==
            AppendIf(AppendIf(AppendIf(AppendIf(<<>>, scrape_tool), search_tool),
                              read_resume_tool), semantic_search_tool)
        interviewer_tools ==
            AppendIf(AppendIf(AppendIf(AppendIf(<<>>, scrape_tool), search_tool),
                              read_resume_tool), semantic_search_tool)
    IN  << Agent("Tech Job Researcher", "Analyze job postings", researcher_tools),
           Agent("Personal Profiler for Engineers", "Compile profiles", profiler_tools),
           Agent("Resume Strategist for Engineers", "Optimize resumes", strategist_tools),
           Agent("Engineering Interview Preparer", "Generate interview questions",
                 interviewer_tools) >>

\* A task: context is the list of the task objects it depends on.
Task(name, agent, async_execution, output_file, context) ==
    [name |-> name, agent |-> agent, async_execution |-> async_execution,
     output_file |-> output_file, context |-> context]

create_tasks_strategy_skips_profile(agents) ==
    LET research_task == Task("Extract Job Requirements", agents[1], TRUE, None, <<>>)
        profile_task == Task("Compile Applicant Profile", agents[2], TRUE, None, <<>>)
        resume_strategy_task ==
            Task("Tailor Resume", agents[3], FALSE, Some("tailored_resume.md"),
                 <<research_task>>)
        interview_task ==
            Task("Prepare Interview Materials", agents[4], FALSE,
                 Some("interview_materials.md"),
                 <<research_task, profile_task, resume_strategy_task>>)
    IN  <<research_task, profile_task, resume_strategy_task, interview_task>>

create_tasks(agents) ==
    LET researcher == agents[1]
        profiler == agents[2]
        strategist == agents[3]
        interviewer == agents[4]
        research_task == Task("Extract Job Requirements", researcher, TRUE, None, <<>>)
        profile_task == Task("Compile Applicant Profile", profiler, TRUE, None, <<>>)
        resume_strategy_task ==
            Task("Tailor Resume", strategist, FALSE, Some("tailored_resume.md"),
                 <<research_task, profile_task>>)
        interview_task ==
            Task("Prepare Interview Materials", interviewer, FALSE,
                 Some("interview_materials.md"),
                 <<research_task, profile_task, resume_strategy_task>>)
    IN  <<research_task, profile_task, resume_strategy_task, interview_task>>

Crew(agents, tasks, serial) ==
    [verbose |-> TRUE,
     agents |-> agents,
     tasks |-> tasks,
     serial |-> serial]

\* ------------------------------------- utils/crew.py: the crew factory

\* os.environ.get: None when the variable is unset.
EnvGet(value) == IF value = "unset" THEN None ELSE Some(value)
TruthyStr(opt) == opt # None /\ opt[1] # ""
\* `path and os.path.exists(path)`: None and "" are falsy.
PathHolds(path) == path # NonePath /\ path # "" /\ path \in disk

ToolsDict_resume_unchecked(resume_path, mdx_path) ==
    LET serper_key == EnvGet(SERPER_API_KEY)
        d0 == [k \in {"scrape"} |-> ScrapeWebsiteTool]
        d1 == IF TruthyStr(serper_key) THEN Put(d0, "search", SerperDevTool(serper_key[1]))
              ELSE d0
        d2 == IF resume_path # NonePath /\ resume_path # ""
              THEN Put(d1, "read_resume", FileReadTool(resume_path)) ELSE d1
        d3 == IF PathHolds(mdx_path)
              THEN Put(d2, "semantic_search", MDXSearchTool(mdx_path)) ELSE d2
    IN  d3

ToolsDict_key_unchecked(resume_path, mdx_path) ==
    LET serper_key == EnvGet(SERPER_API_KEY)
        d0 == [k \in {"scrape"} |-> ScrapeWebsiteTool]
        d1 == IF serper_key # None THEN Put(d0, "search", SerperDevTool(serper_key[1]))
              ELSE d0
        d2 == IF PathHolds(resume_path)
              THEN Put(d1, "read_resume", FileReadTool(resume_path)) ELSE d1
        d3 == IF PathHolds(mdx_path)
              THEN Put(d2, "semantic_search", MDXSearchTool(mdx_path)) ELSE d2
    IN  d3

\* tools_dict as create_job_application_crew fills it.
ToolsDict(resume_path, mdx_path) ==
    LET serper_key == EnvGet(SERPER_API_KEY)
        d0 == [k \in {"scrape"} |-> ScrapeWebsiteTool]
        d1 == IF TruthyStr(serper_key) THEN Put(d0, "search", SerperDevTool(serper_key[1]))
              ELSE d0
        d2 == IF PathHolds(resume_path)
              THEN Put(d1, "read_resume", FileReadTool(resume_path)) ELSE d1
        d3 == IF PathHolds(mdx_path)
              THEN Put(d2, "semantic_search", MDXSearchTool(mdx_path)) ELSE d2
    IN  d3

\* The external constructors create_job_application_crew invokes, in order.
ToolCtors == <<"ScrapeWebsiteTool", "SerperDevTool", "FileReadTool", "MDXSearchTool">>
CtorCalls(tools_dict) ==
    SelectSeq(ToolCtors, LAMBDA c : \E k \in DOMAIN tools_dict : tools_dict[k].cls = c)
    \o <<"Agent", "Agent", "Agent", "Agent", "Task", "Task", "Task", "Task", "Crew">>
Faults == {"none", "ScrapeWebsiteTool", "SerperDevTool", "FileReadTool", "MDXSearchTool",
           "Agent", "Task", "Crew"}
FirstAt(calls, c) == CHOOSE i \in 1..Len(calls) : calls[i] = c /\ \A j \in 1..(i-1) : calls[j] # c
Within(calls, c) == \E i \in 1..Len(calls) : calls[i] = c

\* create_job_application_crew when the external constructor `fault` raises
\* at its first call ("none": nothing raises).  calls are the constructors
\* invoked; tools_dict is the registry as it stands when the call ends; crew
\* is Some(the Crew returned), or None when the call raised.
create_job_application_crew(resume_path, mdx_path, fault) ==
    LET full == ToolsDict(resume_path, mdx_path)
        planned == CtorCalls(full)
        raised == Within(planned, fault)
        tools_dict ==
            IF raised /\ Within(ToolCtors, fault)
            THEN [k \in {x \in DOMAIN full :
                            FirstAt(ToolCtors, full[x].cls) < FirstAt(ToolCtors, fault)}
                    |-> full[k]]
            ELSE full
        agents == create_agents(tools_dict)
        tasks == create_tasks(agents)
    IN  [calls |-> IF raised THEN SubSeq(planned, 1, FirstAt(planned, fault)) ELSE planned,
         tools_dict |-> tools_dict,
         raised |-> raised,
         crew |-> IF raised THEN None ELSE Some(Crew(agents, tasks, objects + 1))]

\* --------------------------------- utils/crew.py: LazyJobApplicationCrew

\* `str(path) if path.exists() else None` for the default data file.
DefaultPath == IF DataPdf \in disk THEN DataPdf ELSE NonePath

kickoff_never_memoizes(self_crew, inputs, fault, framework_raises) ==
    LET c == create_job_application_crew(DefaultPath, DefaultPath, fault)
    IN  [ret |-> IF c.raised \/ framework_raises THEN None ELSE Some("CrewOutput"),
         raised |-> IF c.raised THEN "construct"
                    ELSE IF framework_raises THEN "kickoff" ELSE "",
         crew |-> IF c.raised THEN self_crew ELSE c.crew,
         constructed |-> TRUE,
         create |-> Some(c),
         used |-> c.crew,
         forwarded |-> IF c.raised THEN None ELSE Some(inputs)]

kickoff_drops_crew_on_failure(self_crew, inputs, fault, framework_raises) ==
    LET construct == self_crew = None
        c == create_job_application_crew(DefaultPath, DefaultPath, fault)
        crew == IF construct THEN c.crew ELSE self_crew
        failed == construct /\ c.raised
    IN  [ret |-> IF failed \/ framework_raises THEN None ELSE Some("CrewOutput"),
         raised |-> IF failed THEN "construct"
                    ELSE IF framework_raises THEN "kickoff" ELSE "",
         crew |-> IF framework_raises THEN None ELSE crew,
         constructed |-> construct,
         create |-> IF construct THEN Some(c) ELSE None,
         used |-> crew,
         forwarded |-> IF failed THEN None ELSE Some(inputs)]

\* LazyJobApplicationCrew.kickoff on a wrapper whose _crew is self_crew.
\* constructed: create_job_application_crew was called; crew: _crew when the
\* call ends; used: the crew whose kickoff was called; forwarded: the inputs
\* it was given; raised: where the exception that left the call came from
\* ("": the call returned ret).
kickoff(self_crew, inputs, fault, framework_raises) ==
    LET construct == self_crew = None
        c == create_job_application_crew(DefaultPath, DefaultPath, fault)
        crew == IF construct THEN c.crew ELSE self_crew
        failed == construct /\ c.raised
    IN  [ret |-> IF failed \/ framework_raises THEN None ELSE Some("CrewOutput"),
         raised |-> IF failed THEN "construct"
                    ELSE IF framework_raises THEN "kickoff" ELSE "",
         crew |-> crew,
         constructed |-> construct,
         create |-> IF construct THEN Some(c) ELSE None,
         used |-> crew,
         forwarded |-> IF failed THEN None ELSE Some(inputs)]

\* ------------------------------------------------------------ operations

\* A constructor can only raise when it is called.
CanRaise(resume_path, mdx_path, fault) ==
    fault = "none" \/ Within(CtorCalls(ToolsDict(resume_path, mdx_path)), fault)

CreateJobApplicationCrew ==
    \E resume_path \in PathArgs, mdx_path \in PathArgs, fault \in Faults :
      /\ objects < MaxCrews
      /\ CanRaise(resume_path, mdx_path, fault)
      /\ \E c \in {create_job_application_crew(resume_path, mdx_path, fault)} :
        /\ last' = [calls |-> c.calls,
                    op |-> "create_job_application_crew",
                    resume_path |-> resume_path,
                    mdx_path |-> mdx_path,
                    tools_dict |-> c.tools_dict,
                    fault |-> fault,
                    raised |-> c.raised,
                    crew |-> c.crew]
        /\ objects' = IF c.raised THEN objects ELSE objects + 1
        /\ UNCHANGED <<SERPER_API_KEY, disk, crew_memo, kickoffs, built, dbCalls, saved>>

Kickoff ==
    \E inputs \in InputMappings, fault \in Faults, framework_raises \in BOOLEAN :
      /\ kickoffs < MaxKickoffs
      /\ \E k \in {kickoff(crew_memo, inputs, fault, framework_raises)} :
        LET made == k.constructed /\ ~k.create[1].raised IN
        /\ IF k.constructed
           THEN /\ CanRaise(DefaultPath, DefaultPath, fault)
                /\ k.raised = "construct" => ~framework_raises
           ELSE fault = "none"
        /\ crew_memo' = k.crew
        /\ kickoffs' = kickoffs + 1
        /\ built' = IF made THEN built + 1 ELSE built
        /\ objects' = IF made THEN objects + 1 ELSE objects
        /\ last' = [ret |-> k.ret,
                    op |-> "kickoff",
                    raised |-> k.raised,
                    self_crew |-> crew_memo,
                    inputs |-> inputs,
                    constructed |-> k.constructed,
                    create |-> k.create,
                    used |-> k.used,
                    forwarded |-> k.forwarded,
                    framework_raised |-> framework_raises]
        /\ UNCHANGED <<SERPER_API_KEY, disk, dbCalls, saved>>

\* A registry holding the capabilities in keys.
Registry(keys) ==
    [k \in keys |-> CASE k = "scrape" -> ScrapeWebsiteTool
                      [] k = "search" -> SerperDevTool("serper-key")
                      [] k = "read_resume" -> FileReadTool(DataPdf)
                      [] OTHER -> MDXSearchTool(OtherPath)]

CreateAgents ==
    \E keys \in SUBSET Capabilities :
        /\ last' = [op |-> "create_agents", tools |-> Registry(keys),
                    agents |-> create_agents(Registry(keys))]
        /\ UNCHANGED <<SERPER_API_KEY, disk, crew_memo, kickoffs, built, objects,
                       dbCalls, saved>>

CreateTasks ==
    \E keys \in SUBSET Capabilities :
      \E agents \in {create_agents(Registry(keys))} :
        /\ last' = [op |-> "create_tasks", agents |-> agents, tasks |-> create_tasks(agents)]
        /\ UNCHANGED <<SERPER_API_KEY, disk, crew_memo, kickoffs, built, objects,
                       dbCalls, saved>>

\* ---------------------------------------------------------------- claims

Range(seq) == {seq[i] : i \in 1..Len(seq)}
Created == last.op = "create_job_application_crew"
Returned == Created /\ last.crew # None

\* C1: the registry create_job_application_crew builds holds exactly the
\* capabilities whose preconditions hold (scrape always, search iff the key
\* is set and non-empty, read_resume iff the resume path is given and on
\* disk, semantic_search iff the index path is given and on disk), and every
\* tool of every agent is a tool of that registry.
C1_RegistryMatchesPreconditions ==
    Returned =>
        /\ DOMAIN last.tools_dict =
              {"scrape"}
              \cup (IF SERPER_API_KEY \in {"unset", ""} THEN {} ELSE {"search"})
              \cup (IF last.resume_path \in disk THEN {"read_resume"} ELSE {})
              \cup (IF last.mdx_path \in disk THEN {"semantic_search"} ELSE {})
        /\ \A i \in 1..Len(last.crew[1].agents) :
              \A tool \in Range(last.crew[1].agents[i].tools) :
                  \E k \in DOMAIN last.tools_dict : last.tools_dict[k] = tool

\* C1 happens: the key is set but empty, the resume is on disk and no index
\* path is given, and the registry holds scrape and read_resume only.
C1_Witness ==
    /\ Returned
    /\ SERPER_API_KEY = ""
    /\ last.resume_path = DataPdf
    /\ last.mdx_path = NonePath
    /\ DOMAIN last.tools_dict = {"scrape", "read_resume"}

\* C3: with a resume path that is not on disk (or not given),
\* create_job_application_crew never calls the file-read constructor, so
\* nothing is raised on account of the path: the call returns unless an
\* external constructor it does call raises; read_resume is absent from the
\* registry and no agent holds a file-read tool.
C3_MissingResumeOmitted ==
    (Created /\ last.resume_path \notin disk) =>
        /\ "FileReadTool" \notin Range(last.calls)
        /\ last.raised => (last.fault # "none" /\ last.calls[Len(last.calls)] = last.fault)
        /\ last.fault = "none" => last.crew # None
        /\ "read_resume" \notin DOMAIN last.tools_dict
        /\ last.crew # None =>
              \A i \in 1..Len(last.crew[1].agents) :
                  \A tool \in Range(last.crew[1].agents[i].tools) :
                      tool.cls # "FileReadTool"

\* C3 happens: a resume path is given, the file is not on disk, and the
\* call returned a crew.
C3_Witness ==
    /\ Returned
    /\ last.resume_path = OtherPath
    /\ OtherPath \notin disk
    /\ last.mdx_path = DataPdf
    /\ DataPdf \in disk

\* The tasks a list of tasks names as dependencies of its i-th task.
DependsOn(tasks, i) == Range(tasks[i].context)
\* i reaches j in at most n steps of the dependency relation.
RECURSIVE Reaches(_, _, _, _)
Reaches(tasks, i, j, n) ==
    /\ n > 0
    /\ \/ tasks[j] \in DependsOn(tasks, i)
       \/ \E m \in 1..Len(tasks) :
             tasks[m] \in DependsOn(tasks, i) /\ Reaches(tasks, m, j, n - 1)

TaskGraphHolds(tasks) ==
    /\ Len(tasks) = 4
    /\ DependsOn(tasks, 1) = {}
    /\ DependsOn(tasks, 2) = {}
    /\ DependsOn(tasks, 3) = {tasks[1], tasks[2]}
    /\ DependsOn(tasks, 4) = {tasks[1], tasks[2], tasks[3]}
    /\ <<tasks[1].name, tasks[2].name, tasks[3].name, tasks[4].name>> =
          <<"Extract Job Requirements", "Compile Applicant Profile", "Tailor Resume",
            "Prepare Interview Materials">>
    /\ \A i \in 1..Len(tasks) : ~Reaches(tasks, i, i, Len(tasks))
    /\ \A i \in 1..Len(tasks) :
          \A d \in DependsOn(tasks, i) : \E j \in 1..(i - 1) : tasks[j] = d

\* C7: create_tasks returns four tasks; research and profile depend on
\* nothing, strategy on exactly research and profile, interview on exactly
\* research, profile and strategy; the relation is acyclic and every task
\* depends only on tasks earlier in the list.
C7_TaskGraph ==
    /\ last.op = "create_tasks" => TaskGraphHolds(last.tasks)
    /\ Returned => TaskGraphHolds(last.crew[1].tasks)

\* C7 happens: create_tasks was called with the agents of a full registry.
C7_Witness ==
    /\ last.op = "create_tasks"
    /\ Len(last.agents[2].tools) = 4
    /\ Len(last.tasks) = 4

\* The tools of a registry in the fixed order, those of `keys` only.
InOrder(tools, keys) ==
    LET present == SelectSeq(CapabilityOrder, LAMBDA k : k \in DOMAIN tools /\ k \in keys)
    IN  [i \in 1..Len(present) |-> tools[present[i]]]

\* C9: create_agents returns researcher, profiler, strategist, interviewer
\* in that order; the last three hold every tool of the registry in the
\* order scrape, search, read_resume, semantic_search; the researcher holds
\* only the scrape and search tools among those present.
C9_AgentTools ==
    last.op = "create_agents" =>
        /\ Len(last.agents) = 4
        /\ [i \in 1..4 |-> last.agents[i].role] =
              <<"Tech Job Researcher", "Personal Profiler for Engineers",
                "Resume Strategist for Engineers", "Engineering Interview Preparer">>
        /\ last.agents[1].tools = InOrder(last.tools, {"scrape", "search"})
        /\ \A i \in 2..4 : last.agents[i].tools = InOrder(last.tools, Capabilities)

\* C9 happens: the registry holds all four tools and the researcher was
\* given two of them.
C9_Witness ==
    /\ last.op = "create_agents"
    /\ DOMAIN last.tools = Capabilities
    /\ Len(last.agents[1].tools) = 2
    /\ Len(last.agents[4].tools) = 4

Kicked == last.op = "kickoff"

\* C2: across any sequence of kickoffs the lazy wrapper builds at most one
\* Crew: none exists before the first kickoff, the first kickoff runs the
\* construction, a kickoff constructs only when no crew is memoized, and
\* every kickoff that finds a memoized crew reuses that very object, leaves
\* the memo as it is and forwards its inputs to that object's kickoff.
C2_ConstructedAtMostOnce ==
    /\ built <= 1
    /\ kickoffs = 0 => (crew_memo = None /\ built = 0 /\ objects = 0)
    /\ crew_memo # None <=> built = 1
    /\ Kicked =>
          /\ last.constructed <=> last.self_crew = None
          /\ kickoffs = 1 => last.constructed
          /\ last.self_crew # None =>
                /\ last.create = None
                /\ last.used = last.self_crew
                /\ crew_memo = last.self_crew
                /\ last.forwarded = Some(last.inputs)
          /\ (last.constructed /\ last.raised # "construct") =>
                /\ crew_memo # None
                /\ crew_memo = last.create[1].crew
                /\ last.used = crew_memo
                /\ last.forwarded = Some(last.inputs)

\* C2 happens: a third kickoff finds the crew an earlier kickoff built and
\* reuses it.
C2_Witness ==
    /\ Kicked
    /\ kickoffs = 3
    /\ built = 1
    /\ last.self_crew # None
    /\ ~last.constructed
    /\ last.raised = ""

\* What every kickoff leaves behind when it fails.
C10_FailureState ==
    Kicked =>
        /\ (last.constructed /\ last.create[1].raised) => last.raised = "construct"
        /\ last.framework_raised => last.raised = "kickoff"
        /\ last.raised # "" => last.ret = None
        /\ last.raised = "construct" =>
              /\ last.self_crew = None
              /\ crew_memo = None
              /\ last.forwarded = None
        /\ last.raised = "kickoff" =>
              /\ crew_memo # None
              /\ crew_memo = last.used
              /\ last.forwarded = Some(last.inputs)

\* What the kickoff after a failed one does.
C10_NextKickoff ==
    (Kicked /\ kickoffs' = kickoffs + 1) =>
        /\ last.raised = "construct" => (last'.constructed /\ last'.self_crew = None)
        /\ last.raised = "kickoff" =>
              /\ ~last'.constructed
              /\ last'.used = last.used
              /\ crew_memo' = crew_memo

\* C10: kickoff catches no failure.  If the construction raises, the
\* exception leaves the call, the memo stays unset and the next kickoff
\* runs the construction again; if the framework's kickoff raises, the
\* exception leaves the call, the memoized crew is kept and the next kickoff
\* reuses it without constructing.
C10_FailuresPropagate == []C10_FailureState /\ [][C10_NextKickoff]_vars

\* C10 happens: the first kickoff's construction raised, so the second
\* kickoff ran the construction again; it built the crew, the framework's
\* kickoff raised and the crew stayed memoized.
C10_Witness ==
    /\ Kicked
    /\ kickoffs = 2
    /\ last.constructed
    /\ last.raised = "kickoff"
    /\ built = 1
    /\ crew_memo # None

Saved == last.op = "save_resume"
Deleted == last.op = "delete_resume"

\* C4: save_resume returns a record whose user_id and content are the ones
\* given and whose filename is the one given, or tailored_resume.pdf when
\* none is given.
C4_SaveEchoesInputs ==
    Saved =>
        /\ last.ret.user_id = last.user_id
        /\ last.ret.content = last.content
        /\ last.ret.filename =
              (IF last.filename = Omitted THEN "tailored_resume.pdf" ELSE last.filename)

\* C4 happens: save_resume was called without a filename.
C4_Witness ==
    /\ Saved
    /\ last.filename = Omitted
    /\ last.user_id = 2
    /\ last.content = "%PDF-a"

\* C5: delete_resume in list mode returns an empty list, whatever the id
\* and whatever was saved or deleted before.
C5_ListModeEmpty ==
    (Deleted /\ last.list_only) => last.ret = [kind |-> "list", items |-> <<>>]

\* C5 happens: list mode, with an id supplied, after two users saved.
C5_Witness ==
    /\ Deleted
    /\ last.list_only
    /\ last.resume_id = Some(1)
    /\ Cardinality(saved) = 2

\* C6: delete_resume in delete mode returns None, whether or not an id is
\* supplied, also for the falsy id 0 and for ids never saved.
C6_DeleteModeNone ==
    (Deleted /\ ~last.list_only) => last.ret = [kind |-> "None", items |-> <<>>]

\* C6 happens: delete mode with the falsy id 0.
C6_Witness ==
    /\ Deleted
    /\ ~last.list_only
    /\ last.resume_id = Some(0)

\* C8: the stubs keep no state: get_resume_history returns an empty list
\* for every user and limit, also for a user save_resume was called for, and
\* no operation calls add, commit or query on the session it was given.
C8_NoState ==
    /\ last.op = "get_resume_history" => last.ret = <<>>
    /\ dbCalls \cap {"add", "commit", "query"} = {}

\* C8 happens: the history of a user is asked for after a save for that user.
C8_Witness ==
    /\ last.op = "get_resume_history"
    /\ last.user_id \in saved
    /\ last.limit = 10

\* ------------------------------------------------------ specifications

\* The stub persistence layer shares no state with the crew code: it is
\* explored on its own, from a fixed environment.
InitDb ==
    /\ SERPER_API_KEY = "unset"
    /\ disk = {}
    /\ crew_memo = None
    /\ kickoffs = 0
    /\ built = 0
    /\ objects = 0
    /\ dbCalls = {}
    /\ saved = {}
    /\ last = [op |-> "start"]

NextDb ==
    \/ SaveResume
    \/ DeleteResume
    \/ GetResumeHistory

SpecDb == InitDb /\ [][NextDb]_vars

\* The crew code starts in any environment: the key unset, empty or set,
\* and any of the paths on disk.
InitCrew ==
    /\ SERPER_API_KEY \in KeyValues
    /\ disk \in SUBSET DiskPaths
    /\ crew_memo = None
    /\ kickoffs = 0
    /\ built = 0
    /\ objects = 0
    /\ dbCalls = {}
    /\ saved = {}
    /\ last = [op |-> "start"]

\* The factories, called directly.
NextFactory ==
    \/ CreateJobApplicationCrew
    \/ CreateAgents
    \/ CreateTasks

SpecFactory == InitCrew /\ [][NextFactory]_vars

\* The module's entry point job_application_crew.
NextLazy == Kickoff

SpecLazy == InitCrew /\ [][NextLazy]_vars
====
